---- MODULE Spec2Model ----
(***************************************************************************)
(* MultiBlog (src/app.py): a Flask application over four MongoDB           *)
(* collections (admins, blogs, posts, comments).                           *)
(*                                                                         *)
(* Every request handler is a sequence of store operations.  Each store    *)
(* operation (find_one, insert_one, update_one, delete_one, delete_many)   *)
(* is one atomic step; the Python between two store operations touches     *)
(* only the request's own locals and is folded into the step of the store  *)
(* operation that follows it.  Requests run concurrently (the WSGI server  *)
(* is threaded), so steps of different requests interleave freely.         *)
(*                                                                         *)
(* A request being served is a record in the bag req: its handler (op),    *)
(* its position (pc), its inputs (hdr, id, data), its locals (admin =      *)
(* request.admin, doc = the document a find_one returned) and, once        *)
(* finished, its response (status, body).  status 500 is Flask's answer to *)
(* an exception no handler code catches.                                   *)
(*                                                                         *)
(* Document fields that no handler ever reads back (created_at,            *)
(* updated_at, last_login, description, excerpt, content, image, author)   *)
(* are left out of the documents.  get_admin_blogs and health_check only    *)
(* read, and answer with nothing a handler below does not also answer      *)
(* with; they are left out as well.                                        *)
(***************************************************************************)
EXTENDS Integers, Sequences, FiniteSets, Bags, TLC

VARIABLES
    admins,     \* collection: ObjectId -> admin document
    blogs,      \* collection: ObjectId -> blog document
    posts,      \* collection: ObjectId -> post document
    comments,   \* collection: ObjectId -> comment document
    nextOid,    \* the next ObjectId the driver generates (never reused)
    nextToken,  \* the next value secrets.token_urlsafe draws (never repeated)
    req,        \* bag of the requests being served
    issued,     \* history: <<[admin, token]>> in the order login wrote them
    loggedOut,  \* history: admins whose last session write was logout's $unset
    liked       \* history: post ObjectId -> number of like_post updates that matched

vars == <<admins, blogs, posts, comments, nextOid, nextToken, req, issued, loggedOut, liked>>

store == <<admins, blogs, posts, comments>>

----------------------------------------------------------------------------
(* Bounds of the model *)

MaxInFlight == 2    \* requests being served at the same time
MaxOid == 5         \* documents ever inserted (all collections together)
MaxTokens == 2      \* session tokens ever generated
MaxLikes == 2       \* like_post updates per run

(* Program constant: the longest comment create_comment accepts *)
MaxCommentLen == 1000

----------------------------------------------------------------------------
(* Values *)

NoDoc == [none |-> TRUE]            \* Python None where a document is expected
NoData == [none |-> TRUE]
NoBody == [none |-> TRUE]
NoHeader == [scheme |-> "", token |-> 0]     \* no Authorization header
InvalidId == 0                      \* bson.errors.InvalidId raised by ObjectId(s)

Emails == {"a@x.com", "c@x.com"}
Passwords == {"p", "q"}

Empty == << >> \* the empty collection

(* The collection `coll` with document d stored under its _id. *)
Put(coll, d) == [k \in DOMAIN coll \cup {d._id} |-> IF k = d._id THEN d ELSE coll[k]]

(* The collection `coll` without the documents whose _id is in ids. *)
Drop(coll, ids) == [k \in DOMAIN coll \ ids |-> coll[k]]

(* $set of one field (added when absent). *)
SetField(d, f, v) == [k \in DOMAIN d \cup {f} |-> IF k = f THEN v ELSE d[k]]

(* $unset of one field. *)
UnsetField(d, f) == [k \in DOMAIN d \ {f} |-> d[k]]

Has(d, f) == f \in DOMAIN d

IsDoc(d) == Has(d, "_id")

----------------------------------------------------------------------------
(* Helper functions of app.py *)

hash_password(password) == "sha256(" \o password \o ")"

(* secrets.token_urlsafe(32): 256 random bits, so a draw that was never drawn
   before. *)
generate_session_token == nextToken

(* str(ObjectId) and its inverse ObjectId(str); ObjectId(s) raises InvalidId on
   a string that is not the hex form of an ObjectId. *)
Str(oid) == ToString(oid)

ObjectId(s) ==
    IF \E n \in 1..MaxOid + 1 : Str(n) = s
    THEN CHOOSE n \in 1..MaxOid + 1 : Str(n) = s
    ELSE InvalidId

IdFields == {"_id", "blog_id", "post_id", "admin_id"}

(* serialize_doc: the ids as strings, password_hash removed. *)
serialize_doc(doc) ==
    IF ~IsDoc(doc) THEN doc
    ELSE [f \in DOMAIN doc \ {"password_hash"} |->
            IF f \in IdFields THEN Str(doc[f]) ELSE doc[f]]

(* admins.find_one({'session_token': token}) *)
FindAdminByToken(token) ==
    LET hit == {a \in DOMAIN admins :
                   Has(admins[a], "session_token") /\ admins[a].session_token = token}
    IN IF hit = {} THEN NoDoc ELSE admins[CHOOSE a \in hit : TRUE]

(* admins.find_one({'email': email}) *)
FindAdminByEmail(email) ==
    LET hit == {a \in DOMAIN admins : admins[a].email = email}
    IN IF hit = {} THEN NoDoc ELSE admins[CHOOSE a \in hit : TRUE]

(* require_admin: the admin document the bearer token resolves to, or NoDoc
   when the decorator answers 401. *)
require_admin(hdr) ==
    IF hdr.scheme # "Bearer" THEN NoDoc ELSE FindAdminByToken(hdr.token)

(* The body of the 401 the decorator answers. *)
Denied(hdr) ==
    [error |-> IF hdr.scheme # "Bearer" THEN "Missing or invalid authorization"
               ELSE "Invalid or expired session"]

(* verify_blog_ownership that only looks the blog up. *)
verify_blog_ownership_any(admin_id, blog_oid) ==
    blog_oid \in DOMAIN blogs

(* verify_blog_ownership, on an id ObjectId() accepted. *)
verify_blog_ownership(admin_id, blog_oid) ==
    blog_oid \in DOMAIN blogs /\ blogs[blog_oid].admin_id = admin_id

----------------------------------------------------------------------------
(* Requests *)

Request(op, pc, hdr, id, data, admin, doc) ==
    [op |-> op, pc |-> pc, hdr |-> hdr, id |-> id, data |-> data,
     admin |-> admin, doc |-> doc, status |-> 0, body |-> NoBody]

(* The finished request: what it was (op, id, data, admin) and what it answered;
   its header and find_one local are gone. *)
Response(r, status, body) ==
    [r EXCEPT !.pc = "done", !.hdr = NoHeader, !.doc = NoDoc,
              !.status = status, !.body = body]

(* The same without the request body, where nothing stated below needs it. *)
Answer(r, status, body) == [Response(r, status, body) EXCEPT !.data = NoData]

Error(msg) == [error |-> msg]

Serving == BagToSet(req)
Finished == {r \in Serving : r.pc = "done"}

(* A request arrives and runs up to its first store operation, ending as r. *)
Arrive(r) ==
    /\ BagCardinality(req) < MaxInFlight
    /\ req' = req (+) SetToBag({r})

(* The request r runs its next store operation, ending as r2. *)
Step(r, r2) == req' = (req (-) SetToBag({r})) (+) SetToBag({r2})

At(r, op, pc) == r.op = op /\ r.pc = pc

(* Requests that have passed their checks and will still insert a document or
   generate a token: their draws are counted against the bounds. *)
PendingInserts ==
    BagCardinality([r \in {q \in Serving : q.pc = "insert" \/ At(q, "create_post", "check_category")}
                       |-> req[r]])
PendingTokens ==
    BagCardinality([r \in {q \in Serving : At(q, "login_admin", "update")} |-> req[r]])

CanInsert == nextOid + PendingInserts <= MaxOid
CanIssue == nextToken + PendingTokens <= MaxTokens

Bearer(t) == [scheme |-> "Bearer", token |-> t]

(* The Authorization headers a client can send: none, a non-bearer scheme, a
   bearer token never issued (0), or any token issued so far. *)
Headers ==
    {NoHeader, [scheme |-> "Basic", token |-> 0]} \cup
    {Bearer(t) : t \in 0..(nextToken - 1)}

(* The handler returns its response to the client. *)
Respond(r) ==
    /\ r.pc = "done"
    /\ req' = req (-) SetToBag({r})
    /\ UNCHANGED <<store, nextOid, nextToken, issued, loggedOut, liked>>

----------------------------------------------------------------------------
(* ADMIN MANAGEMENT *)

RegisterInputs ==
    [email : Emails, password : {"p"}, name : {"A"}] \cup
    {[email |-> "a@x.com", password |-> "q", name |-> "A"]} \cup
    {[email |-> "", password |-> "p", name |-> "A"],
     [email |-> "a@x.com", password |-> "", name |-> "A"],
     [email |-> "a@x.com", password |-> "p", name |-> ""]}

(* register_admin up to admins.find_one({'email': email}) *)
register_admin(data) ==
    /\ CanInsert
    /\ LET r == Request("register_admin", "insert", NoHeader, "", data, NoDoc, NoDoc)
       IN Arrive(
            IF data.email = "" \/ data.password = "" \/ data.name = ""
            THEN Response(r, 400, Error("Email, password, and name are required"))
            ELSE IF IsDoc(FindAdminByEmail(data.email))
            THEN Response(r, 409, Error("Admin with this email already exists"))
            ELSE r)
    /\ UNCHANGED <<store, nextOid, nextToken, issued, loggedOut, liked>>

(* admins.insert_one(admin_doc): the unique index on email (line 27) makes the
   insert raise DuplicateKeyError, which register_admin does not catch. *)
register_admin_insert(r) ==
    /\ At(r, "register_admin", "insert")
    /\ LET data == r.data
           admin_doc == [_id |-> nextOid, email |-> data.email,
                         password_hash |-> hash_password(data.password),
                         name |-> data.name]
       IN IF IsDoc(FindAdminByEmail(data.email))
          THEN /\ Step(r, Response(r, 500, Error("DuplicateKeyError")))
               /\ UNCHANGED <<admins, nextOid>>
          ELSE /\ admins' = Put(admins, admin_doc)
               /\ nextOid' = nextOid + 1
               /\ Step(r, Response(r, 201,
                            [message |-> "Admin registered successfully",
                             admin_id |-> Str(nextOid)]))
    /\ UNCHANGED <<blogs, posts, comments, nextToken, issued, loggedOut, liked>>

LoginInputs ==
    [email : Emails, password : Passwords] \cup
    {[email |-> "", password |-> "p"], [email |-> "a@x.com", password |-> ""]}

(* login_admin up to admins.find_one({'email': email}) and the digest check *)
login_admin(data) ==
    /\ CanIssue
    /\ LET admin == FindAdminByEmail(data.email)
           r == Request("login_admin", "update", NoHeader, "", data, NoDoc, admin)
       IN Arrive(
            IF data.email = "" \/ data.password = ""
            THEN Answer(r, 400, Error("Email and password are required"))
            ELSE IF ~IsDoc(admin) \/ admin.password_hash # hash_password(data.password)
            THEN Answer(r, 401, Error("Invalid email or password"))
            ELSE r)
    /\ UNCHANGED <<store, nextOid, nextToken, issued, loggedOut, liked>>

(* session_token = generate_session_token(); admins.update_one({'_id': ...},
   {'$set': {'session_token': session_token, ...}}) and the response *)
login_admin_update(r) ==
    /\ At(r, "login_admin", "update")
    /\ LET admin == r.doc
           session_token == generate_session_token
       IN /\ admins' = IF admin._id \in DOMAIN admins
                       THEN Put(admins, SetField(admins[admin._id], "session_token", session_token))
                       ELSE admins
          /\ nextToken' = nextToken + 1
          /\ issued' = Append(issued, [admin |-> admin._id, token |-> session_token])
          /\ loggedOut' = loggedOut \ {admin._id}
          /\ Step(r, Answer(r, 200,
                        [message |-> "Login successful",
                         session_token |-> session_token,
                         admin |-> [id |-> Str(admin._id), email |-> admin.email,
                                    name |-> admin.name]]))
    /\ UNCHANGED <<blogs, posts, comments, nextOid, liked>>

(* $unset that leaves the field in place. *)
ClearSession_keep(doc) == doc

(* {'$unset': {'session_token': ''}} *)
ClearSession(doc) == UnsetField(doc, "session_token")

(* logout_admin: the require_admin decorator *)
logout_admin(hdr) ==
    /\ LET admin == require_admin(hdr)
           r == Request("logout_admin", "unset", hdr, "", NoData, admin, NoDoc)
       IN Arrive(
            IF ~IsDoc(admin)
            THEN Response(r, 401, Denied(hdr))
            ELSE r)
    /\ UNCHANGED <<store, nextOid, nextToken, issued, loggedOut, liked>>

(* admins.update_one({'_id': request.admin['_id']}, {'$unset': ...}) *)
logout_admin_unset(r) ==
    /\ At(r, "logout_admin", "unset")
    /\ LET id == r.admin._id
       IN /\ admins' = IF id \in DOMAIN admins
                       THEN Put(admins, ClearSession(admins[id]))
                       ELSE admins
          /\ loggedOut' = loggedOut \cup {id}
    /\ Step(r, Response(r, 200, [message |-> "Logged out successfully"]))
    /\ UNCHANGED <<blogs, posts, comments, nextOid, nextToken, issued, liked>>

(* get_admin_profile: require_admin, then serialize_doc(request.admin.copy()) *)
get_admin_profile(hdr) ==
    /\ LET admin == require_admin(hdr)
           r == Request("get_admin_profile", "done", hdr, "", NoData, admin, NoDoc)
       IN Arrive(
            IF ~IsDoc(admin)
            THEN Response(r, 401, Denied(hdr))
            ELSE Response(r, 200, serialize_doc(admin)))
    /\ UNCHANGED <<store, nextOid, nextToken, issued, loggedOut, liked>>

----------------------------------------------------------------------------
(* BLOG, POST, COMMENT MANAGEMENT                                           *)
(*                                                                          *)
(* No handler below writes the admins collection, so the find_one of the    *)
(* require_admin decorator is folded into the handler's first store         *)
(* operation.  A finished request of this part keeps its op, id and admin;  *)
(* its request body is dropped.                                             *)

PyNone == "None"                    \* Python None where a string is expected
Truthy(v) == v # PyNone /\ v # ""   \* `if v:` on a string or None

(* data.get(k, default) *)
Get(data, k, default) == IF Has(data, k) THEN data[k] ELSE default

Unauthenticated(r) == Answer(r, 401, Denied(r.hdr))
Forbidden(r) == Answer(r, 403, Error("Unauthorized - you do not own this blog"))
Unhandled(r, exc) == Answer(r, 500, Error(exc))

(* A JSON array of category labels, or a JSON value that is not an array. *)
List(items) == [list |-> TRUE, items |-> items]
NotAList == [list |-> FALSE, items |-> {}]

(* create_blog: validation and blogs.insert_one(blog_doc) *)
create_blog(hdr, data) ==
    /\ CanInsert
    /\ LET admin == require_admin(hdr)
           r == Request("create_blog", "insert", hdr, "", data, admin, NoDoc)
           categories == Get(data, "categories", List({}))
           blog_doc == [_id |-> nextOid, admin_id |-> admin._id,
                        name |-> data.name, categories |-> categories.items]
       IN IF ~IsDoc(admin)
          THEN Arrive(Unauthenticated(r)) /\ UNCHANGED <<blogs, nextOid>>
          ELSE IF Get(data, "name", "") = ""
          THEN Arrive(Answer(r, 400, Error("Blog name is required")))
               /\ UNCHANGED <<blogs, nextOid>>
          ELSE IF ~categories.list
          THEN Arrive(Answer(r, 400, Error("Categories must be an array")))
               /\ UNCHANGED <<blogs, nextOid>>
          ELSE /\ blogs' = Put(blogs, blog_doc)
               /\ nextOid' = nextOid + 1
               /\ Arrive(Answer(r, 201, [message |-> "Blog created successfully",
                                         blog |-> serialize_doc(blog_doc)]))
    /\ UNCHANGED <<admins, posts, comments, nextToken, issued, loggedOut, liked>>

(* get_blog *)
get_blog(id) ==
    /\ LET r == Request("get_blog", "done", NoHeader, id, NoData, NoDoc, NoDoc)
           oid == ObjectId(id)
       IN Arrive(IF oid = InvalidId
                 THEN Answer(r, 400, Error("Invalid blog ID format"))
                 ELSE IF oid \notin DOMAIN blogs
                 THEN Answer(r, 404, Error("Blog not found"))
                 ELSE Answer(r, 200, serialize_doc(blogs[oid])))
    /\ UNCHANGED <<store, nextOid, nextToken, issued, loggedOut, liked>>

(* update_fields of update_blog: the fields of the request body that it copies. *)
BlogUpdateFields(data) ==
    [f \in DOMAIN data \cap {"name", "categories"} |->
        IF f = "categories" THEN data[f].items ELSE data[f]]

(* {'$set': update_fields} *)
SetFields(doc, update_fields) ==
    [f \in DOMAIN doc \cup DOMAIN update_fields |->
        IF f \in DOMAIN update_fields THEN update_fields[f] ELSE doc[f]]

(* update_blog up to verify_blog_ownership and the checks of the body *)
update_blog(hdr, id, data) ==
    /\ LET admin == require_admin(hdr)
           r == Request("update_blog", "update", hdr, id, data, admin, NoDoc)
           oid == ObjectId(id)
       IN Arrive(IF ~IsDoc(admin) THEN Unauthenticated(r)
                 ELSE IF oid = InvalidId THEN Unhandled(r, "InvalidId")
                 ELSE IF ~verify_blog_ownership(admin._id, oid) THEN Forbidden(r)
                 ELSE IF Has(data, "categories") /\ ~data.categories.list
                 THEN Answer(r, 400, Error("Categories must be an array"))
                 ELSE IF DOMAIN BlogUpdateFields(data) = {}
                 THEN Answer(r, 400, Error("No fields to update"))
                 ELSE r)
    /\ UNCHANGED <<store, nextOid, nextToken, issued, loggedOut, liked>>

(* blogs.update_one({'_id': ObjectId(blog_id)}, {'$set': update_fields}) *)
update_blog_update(r) ==
    /\ At(r, "update_blog", "update")
    /\ LET oid == ObjectId(r.id)
       IN blogs' = IF oid \in DOMAIN blogs
                   THEN Put(blogs, SetFields(blogs[oid], BlogUpdateFields(r.data)))
                   ELSE blogs
    /\ Step(r, Answer(r, 200, [message |-> "Blog updated successfully"]))
    /\ UNCHANGED <<admins, posts, comments, nextOid, nextToken, issued, loggedOut, liked>>

(* delete_blog up to verify_blog_ownership *)
delete_blog(hdr, id) ==
    /\ LET admin == require_admin(hdr)
           r == Request("delete_blog", "delete", hdr, id, NoData, admin, NoDoc)
           oid == ObjectId(id)
       IN Arrive(IF ~IsDoc(admin) THEN Unauthenticated(r)
                 ELSE IF oid = InvalidId THEN Unhandled(r, "InvalidId")
                 ELSE IF ~verify_blog_ownership(admin._id, oid) THEN Forbidden(r)
                 ELSE r)
    /\ UNCHANGED <<store, nextOid, nextToken, issued, loggedOut, liked>>

(* blogs.delete_one({'_id': ObjectId(blog_id)}) *)
delete_blog_delete(r) ==
    /\ At(r, "delete_blog", "delete")
    /\ LET oid == ObjectId(r.id)
       IN IF oid \notin DOMAIN blogs
          THEN Step(r, Answer(r, 404, Error("Blog not found"))) /\ UNCHANGED blogs
          ELSE blogs' = Drop(blogs, {oid}) /\ Step(r, [r EXCEPT !.pc = "delete_posts"])
    /\ UNCHANGED <<admins, posts, comments, nextOid, nextToken, issued, loggedOut, liked>>

(* posts.find({'blog_id': ...}) (its result, post_ids, is never used) and
   posts.delete_many({'blog_id': ObjectId(blog_id)}) *)
delete_blog_posts(r) ==
    /\ At(r, "delete_blog", "delete_posts")
    /\ posts' = Drop(posts, {p \in DOMAIN posts : posts[p].blog_id = ObjectId(r.id)})
    /\ Step(r, [r EXCEPT !.pc = "delete_comments"])
    /\ UNCHANGED <<admins, blogs, comments, nextOid, nextToken, issued, loggedOut, liked>>

(* comments.delete_many({'blog_id': ObjectId(blog_id)}) *)
delete_blog_comments(r) ==
    /\ At(r, "delete_blog", "delete_comments")
    /\ comments' = Drop(comments, {c \in DOMAIN comments : comments[c].blog_id = ObjectId(r.id)})
    /\ Step(r, Answer(r, 200, [message |-> "Blog and all associated content deleted"]))
    /\ UNCHANGED <<admins, blogs, posts, nextOid, nextToken, issued, loggedOut, liked>>

(* create_post up to verify_blog_ownership and the title/content check *)
create_post(hdr, id, data) ==
    /\ CanInsert
    /\ LET admin == require_admin(hdr)
           category == Get(data, "category", PyNone)
           r == Request("create_post", IF Truthy(category) THEN "check_category" ELSE "insert",
                        hdr, id, data, admin, NoDoc)
           oid == ObjectId(id)
       IN Arrive(IF ~IsDoc(admin) THEN Unauthenticated(r)
                 ELSE IF oid = InvalidId THEN Unhandled(r, "InvalidId")
                 ELSE IF ~verify_blog_ownership(admin._id, oid) THEN Forbidden(r)
                 ELSE IF Get(data, "title", "") = "" \/ Get(data, "content", "") = ""
                 THEN Answer(r, 400, Error("Title and content are required"))
                 ELSE r)
    /\ UNCHANGED <<store, nextOid, nextToken, issued, loggedOut, liked>>

(* The category check of create_post and update_post on the blog find_one
   returned: a falsy category is not looked up; for any other, blog.get raises
   AttributeError when the blog is gone. *)
CategoryCheck(r, blog_oid, category, next) ==
    IF ~Truthy(category) THEN [r EXCEPT !.pc = next]
    ELSE IF blog_oid \notin DOMAIN blogs THEN Unhandled(r, "AttributeError")
    ELSE IF category \notin blogs[blog_oid].categories
    THEN Answer(r, 400, Error("Invalid category"))
    ELSE [r EXCEPT !.pc = next]

(* blog = blogs.find_one({'_id': ObjectId(blog_id)}) and the membership test *)
create_post_category(r) ==
    /\ At(r, "create_post", "check_category")
    /\ Step(r, CategoryCheck(r, ObjectId(r.id), r.data.category, "insert"))
    /\ UNCHANGED <<store, nextOid, nextToken, issued, loggedOut, liked>>

(* posts.insert_one(post_doc) *)
create_post_insert(r) ==
    /\ At(r, "create_post", "insert")
    /\ LET post_doc == [_id |-> nextOid, blog_id |-> ObjectId(r.id),
                        title |-> r.data.title,
                        category |-> Get(r.data, "category", PyNone), likes |-> 0]
       IN /\ posts' = Put(posts, post_doc)
          /\ liked' = [p \in DOMAIN liked \cup {nextOid} |-> IF p = nextOid THEN 0 ELSE liked[p]]
          /\ Step(r, Answer(r, 201, [message |-> "Post created successfully",
                                     post |-> serialize_doc(post_doc)]))
    /\ nextOid' = nextOid + 1
    /\ UNCHANGED <<admins, blogs, comments, nextToken, issued, loggedOut>>

(* get_posts: the page/limit checks, the query (ObjectId(blog_id) is built
   outside the try) and the two reads; page and limit are NaN when int() raises
   ValueError.  The page of posts it returns is not modelled. *)
NaN == -1
get_posts(id, page, limit) ==
    /\ LET r == Request("get_posts", "done", NoHeader, id, NoData, NoDoc, NoDoc)
       IN Arrive(IF page = NaN \/ limit = NaN
                 THEN Answer(r, 400, Error("Invalid page or limit parameter"))
                 ELSE IF page < 1 \/ limit < 1 \/ limit > 100
                 THEN Answer(r, 400, Error("Page must be >= 1 and limit must be between 1 and 100"))
                 ELSE IF ObjectId(id) = InvalidId THEN Unhandled(r, "InvalidId")
                 ELSE Answer(r, 200, [page |-> page]))
    /\ UNCHANGED <<store, nextOid, nextToken, issued, loggedOut, liked>>

(* get_post *)
get_post(id) ==
    /\ LET r == Request("get_post", "done", NoHeader, id, NoData, NoDoc, NoDoc)
           oid == ObjectId(id)
       IN Arrive(IF oid = InvalidId
                 THEN Answer(r, 400, Error("Invalid post ID format"))
                 ELSE IF oid \notin DOMAIN posts
                 THEN Answer(r, 404, Error("Post not found"))
                 ELSE Answer(r, 200, serialize_doc(posts[oid])))
    /\ UNCHANGED <<store, nextOid, nextToken, issued, loggedOut, liked>>

(* The first step of update_post, delete_post (coll = posts) and delete_comment
   (coll = comments): require_admin, then find_one by the path id in a try. *)
FindOwned(r, coll, what) ==
    LET oid == ObjectId(r.id)
    IN IF ~IsDoc(r.admin) THEN Unauthenticated(r)
       ELSE IF oid = InvalidId THEN Answer(r, 400, Error("Invalid " \o what \o " ID format"))
       ELSE IF oid \notin DOMAIN coll THEN Answer(r, 404, Error(what \o " not found"))
       ELSE [r EXCEPT !.doc = coll[oid]]

(* update_post up to posts.find_one *)
update_post(hdr, id, data) ==
    /\ Arrive(FindOwned(Request("update_post", "verify", hdr, id, data, require_admin(hdr), NoDoc),
                        posts, "post"))
    /\ UNCHANGED <<store, nextOid, nextToken, issued, loggedOut, liked>>

(* update_fields of update_post that also resets the counter. *)
PostUpdateFields_reset(data) ==
    [f \in (DOMAIN data \cap {"title", "category"}) \cup {"likes"} |->
        IF f = "likes" THEN 0 ELSE data[f]]

(* update_fields of update_post: the fields of the request body that it copies. *)
PostUpdateFields(data) == [f \in DOMAIN data \cap {"title", "category"} |-> data[f]]

(* verify_blog_ownership(request.admin['_id'], post['blog_id']) and the build
   of update_fields up to the category *)
update_post_verify(r) ==
    /\ At(r, "update_post", "verify")
    /\ Step(r, IF ~verify_blog_ownership(r.admin._id, r.doc.blog_id) THEN Forbidden(r)
               ELSE IF Has(r.data, "category") THEN [r EXCEPT !.pc = "check_category"]
               ELSE IF DOMAIN PostUpdateFields(r.data) = {}
               THEN Answer(r, 400, Error("No fields to update"))
               ELSE [r EXCEPT !.pc = "update"])
    /\ UNCHANGED <<store, nextOid, nextToken, issued, loggedOut, liked>>

(* blog = blogs.find_one({'_id': post['blog_id']}) and the membership test *)
update_post_category(r) ==
    /\ At(r, "update_post", "check_category")
    /\ Step(r, CategoryCheck(r, r.doc.blog_id, r.data.category, "update"))
    /\ UNCHANGED <<store, nextOid, nextToken, issued, loggedOut, liked>>

(* posts.update_one({'_id': ObjectId(post_id)}, {'$set': update_fields}) *)
update_post_update(r) ==
    /\ At(r, "update_post", "update")
    /\ LET oid == ObjectId(r.id)
       IN posts' = IF oid \in DOMAIN posts
                   THEN Put(posts, SetFields(posts[oid], PostUpdateFields(r.data)))
                   ELSE posts
    /\ Step(r, Answer(r, 200, [message |-> "Post updated successfully"]))
    /\ UNCHANGED <<admins, blogs, comments, nextOid, nextToken, issued, loggedOut, liked>>

(* delete_post up to posts.find_one *)
delete_post(hdr, id) ==
    /\ Arrive(FindOwned(Request("delete_post", "verify", hdr, id, NoData, require_admin(hdr), NoDoc),
                        posts, "post"))
    /\ UNCHANGED <<store, nextOid, nextToken, issued, loggedOut, liked>>

(* verify_blog_ownership(request.admin['_id'], post['blog_id']) *)
delete_post_verify(r) ==
    /\ At(r, "delete_post", "verify")
    /\ Step(r, IF ~verify_blog_ownership(r.admin._id, r.doc.blog_id) THEN Forbidden(r)
               ELSE [r EXCEPT !.pc = "delete"])
    /\ UNCHANGED <<store, nextOid, nextToken, issued, loggedOut, liked>>

(* posts.delete_one({'_id': ObjectId(post_id)}) *)
delete_post_delete(r) ==
    /\ At(r, "delete_post", "delete")
    /\ posts' = Drop(posts, {ObjectId(r.id)})
    /\ Step(r, [r EXCEPT !.pc = "delete_comments"])
    /\ UNCHANGED <<admins, blogs, comments, nextOid, nextToken, issued, loggedOut, liked>>

(* comments.delete_many({'post_id': ObjectId(post_id)}) *)
delete_post_comments(r) ==
    /\ At(r, "delete_post", "delete_comments")
    /\ comments' = Drop(comments, {c \in DOMAIN comments : comments[c].post_id = ObjectId(r.id)})
    /\ Step(r, Answer(r, 200, [message |-> "Post and associated comments deleted"]))
    /\ UNCHANGED <<admins, blogs, posts, nextOid, nextToken, issued, loggedOut, liked>>

(* {'$inc': {'likes': 1}} *)
IncLikes(doc) == [doc EXCEPT !.likes = @ + 1]

(* like_post: posts.update_one({'_id': ...}, {'$inc': {'likes': 1}}) in a try *)
like_post(id) ==
    /\ LET r == Request("like_post", "find", NoHeader, id, NoData, NoDoc, NoDoc)
           oid == ObjectId(id)
       IN IF oid = InvalidId
          THEN Arrive(Answer(r, 400, Error("Invalid post ID format")))
               /\ UNCHANGED <<posts, liked>>
          ELSE IF oid \notin DOMAIN posts
          THEN Arrive(Answer(r, 404, Error("Post not found"))) /\ UNCHANGED <<posts, liked>>
          ELSE /\ posts[oid].likes < MaxLikes
               /\ posts' = Put(posts, IncLikes(posts[oid]))
               /\ liked' = [liked EXCEPT ![oid] = @ + 1]
               /\ Arrive(r)
    /\ UNCHANGED <<admins, blogs, comments, nextOid, nextToken, issued, loggedOut>>

(* post = posts.find_one(...); post['likes'] raises TypeError when the post is gone *)
like_post_find(r) ==
    /\ At(r, "like_post", "find")
    /\ LET oid == ObjectId(r.id)
       IN Step(r, IF oid \notin DOMAIN posts THEN Unhandled(r, "TypeError")
                  ELSE Answer(r, 200, [likes |-> posts[oid].likes]))
    /\ UNCHANGED <<store, nextOid, nextToken, issued, loggedOut, liked>>

(* create_comment up to posts.find_one; the body's content is given by its length *)
create_comment(id, data) ==
    /\ CanInsert
    /\ LET r == Request("create_comment", "insert", NoHeader, id, data, NoDoc, NoDoc)
           oid == ObjectId(id)
       IN Arrive(IF data.content_len = 0
                 THEN Answer(r, 400, Error("Comment content is required"))
                 ELSE IF data.content_len > MaxCommentLen
                 THEN Answer(r, 400, Error("Comment too long (max 1000 characters)"))
                 ELSE IF oid = InvalidId
                 THEN Answer(r, 400, Error("Invalid post ID format"))
                 ELSE IF oid \notin DOMAIN posts
                 THEN Answer(r, 404, Error("Post not found"))
                 ELSE [r EXCEPT !.doc = posts[oid]])
    /\ UNCHANGED <<store, nextOid, nextToken, issued, loggedOut, liked>>

(* comments.insert_one(comment_doc) *)
create_comment_insert(r) ==
    /\ At(r, "create_comment", "insert")
    /\ LET comment_doc == [_id |-> nextOid, post_id |-> ObjectId(r.id),
                           blog_id |-> r.doc.blog_id]
       IN /\ comments' = Put(comments, comment_doc)
          /\ Step(r, Answer(r, 201, [message |-> "Comment added successfully",
                                     comment |-> serialize_doc(comment_doc)]))
    /\ nextOid' = nextOid + 1
    /\ UNCHANGED <<admins, blogs, posts, nextToken, issued, loggedOut, liked>>

(* get_comments; the list it returns is given by the ids of its comments *)
get_comments(id) ==
    /\ LET r == Request("get_comments", "done", NoHeader, id, NoData, NoDoc, NoDoc)
           oid == ObjectId(id)
       IN Arrive(IF oid = InvalidId
                 THEN Answer(r, 400, Error("Invalid post ID format"))
                 ELSE Answer(r, 200, [comments |->
                        {Str(c) : c \in {k \in DOMAIN comments : comments[k].post_id = oid}}]))
    /\ UNCHANGED <<store, nextOid, nextToken, issued, loggedOut, liked>>

(* delete_comment up to comments.find_one *)
delete_comment(hdr, id) ==
    /\ Arrive(FindOwned(Request("delete_comment", "verify", hdr, id, NoData, require_admin(hdr), NoDoc),
                        comments, "comment"))
    /\ UNCHANGED <<store, nextOid, nextToken, issued, loggedOut, liked>>

(* verify_blog_ownership(request.admin['_id'], comment['blog_id']) *)
delete_comment_verify(r) ==
    /\ At(r, "delete_comment", "verify")
    /\ Step(r, IF ~verify_blog_ownership(r.admin._id, r.doc.blog_id) THEN Forbidden(r)
               ELSE [r EXCEPT !.pc = "delete"])
    /\ UNCHANGED <<store, nextOid, nextToken, issued, loggedOut, liked>>

(* comments.delete_one({'_id': ObjectId(comment_id)}) *)
delete_comment_delete(r) ==
    /\ At(r, "delete_comment", "delete")
    /\ comments' = Drop(comments, {ObjectId(r.id)})
    /\ Step(r, Answer(r, 200, [message |-> "Comment deleted successfully"]))
    /\ UNCHANGED <<admins, blogs, posts, nextOid, nextToken, issued, loggedOut, liked>>

----------------------------------------------------------------------------
(* The credential store alone: register, login, logout and profile requests
   against an empty database. *)

Init ==
    /\ admins = Empty /\ blogs = Empty /\ posts = Empty /\ comments = Empty
    /\ nextOid = 1 /\ nextToken = 1
    /\ req = EmptyBag
    /\ issued = << >> /\ loggedOut = {} /\ liked = Empty

NextAuth ==
    \/ \E data \in RegisterInputs : register_admin(data)
    \/ \E r \in Serving : register_admin_insert(r)
    \/ \E data \in LoginInputs : login_admin(data)
    \/ \E r \in Serving : login_admin_update(r)
    \/ \E hdr \in Headers : logout_admin(hdr)
    \/ \E r \in Serving : logout_admin_unset(r)
    \/ \E hdr \in Headers : get_admin_profile(hdr)
    \/ \E r \in Serving : Respond(r)

SpecAuth == Init /\ [][NextAuth]_vars

----------------------------------------------------------------------------
(* The content repository: two admins, A and C, are registered and logged in
   (the state register, register, login, login leaves behind), and blog, post
   and comment requests run against an otherwise empty database. *)

AdminA == [_id |-> 1, email |-> "a@x.com", password_hash |-> hash_password("p"),
           name |-> "A", session_token |-> 1]
AdminC == [_id |-> 2, email |-> "c@x.com", password_hash |-> hash_password("p"),
           name |-> "A", session_token |-> 2]

InitContent ==
    /\ admins = Put(Put(Empty, AdminA), AdminC)
    /\ blogs = Empty /\ posts = Empty /\ comments = Empty
    /\ nextOid = 3 /\ nextToken = 3
    /\ req = EmptyBag
    /\ issued = <<[admin |-> 1, token |-> 1], [admin |-> 2, token |-> 2]>>
    /\ loggedOut = {} /\ liked = Empty

(* The ids a client can put in a path: the hex form of the ObjectId of any
   blog, post or comment created so far, ... *)
ContentIds == {Str(n) : n \in 3..(nextOid - 1)}

(* ... or a string that is no ObjectId at all. *)
PathIds == ContentIds \cup {"xyz"}

A == Bearer(1)
C == Bearer(2)

Untitled == [title |-> "", content |-> "c"]
Post(category) == [title |-> "T", content |-> "c", category |-> category]
Comment(n) == [content_len |-> n]

(* Ownership: A creates blogs, posts and comments; A and C both call every
   owner-only handler on everything that exists. *)
NextOwner ==
    \/ create_blog(A, [name |-> "B", categories |-> List({"x"})])
    \/ \E hdr \in {A, C}, id \in ContentIds : update_blog(hdr, id, [name |-> "B2"])
    \/ \E r \in Serving : update_blog_update(r)
    \/ \E hdr \in {A, C}, id \in ContentIds : delete_blog(hdr, id)
    \/ \E r \in Serving : delete_blog_delete(r)
    \/ \E r \in Serving : delete_blog_posts(r)
    \/ \E r \in Serving : delete_blog_comments(r)
    \/ \E hdr \in {A, C}, id \in ContentIds : create_post(hdr, id, Post("x"))
    \/ \E r \in Serving : create_post_category(r)
    \/ \E r \in Serving : create_post_insert(r)
    \/ \E hdr \in {A, C}, id \in ContentIds : update_post(hdr, id, [title |-> "U"])
    \/ \E r \in Serving : update_post_verify(r)
    \/ \E r \in Serving : update_post_update(r)
    \/ \E hdr \in {A, C}, id \in ContentIds : delete_post(hdr, id)
    \/ \E r \in Serving : delete_post_verify(r)
    \/ \E r \in Serving : delete_post_delete(r)
    \/ \E r \in Serving : delete_post_comments(r)
    \/ \E id \in ContentIds : create_comment(id, Comment(1))
    \/ \E r \in Serving : create_comment_insert(r)
    \/ \E hdr \in {A, C}, id \in ContentIds : delete_comment(hdr, id)
    \/ \E r \in Serving : delete_comment_verify(r)
    \/ \E r \in Serving : delete_comment_delete(r)
    \/ \E r \in Serving : Respond(r)

SpecOwner == InitContent /\ [][NextOwner]_vars

(* Cascading deletes: A creates a blog, posts and comments and deletes blogs
   and posts while posts and comments are being created. *)
NextCascade ==
    \/ create_blog(A, [name |-> "B"])
    \/ \E id \in ContentIds : delete_blog(A, id)
    \/ \E r \in Serving : delete_blog_delete(r)
    \/ \E r \in Serving : delete_blog_posts(r)
    \/ \E r \in Serving : delete_blog_comments(r)
    \/ \E id \in ContentIds : create_post(A, id, Post(PyNone))
    \/ \E r \in Serving : create_post_insert(r)
    \/ \E id \in ContentIds : delete_post(A, id)
    \/ \E r \in Serving : delete_post_verify(r)
    \/ \E r \in Serving : delete_post_delete(r)
    \/ \E r \in Serving : delete_post_comments(r)
    \/ \E id \in ContentIds : create_comment(id, Comment(1))
    \/ \E r \in Serving : create_comment_insert(r)
    \/ \E r \in Serving : Respond(r)

SpecCascade == InitContent /\ [][NextCascade]_vars

(* Categories: A creates blogs with and without categories, changes the
   category set, and creates and updates posts with every kind of category. *)
Categories == {PyNone, "", "x", "y"}

NextCategory ==
    \/ \E data \in {[name |-> "B"], [name |-> "B", categories |-> List({"x"})]} :
          create_blog(A, data)
    \/ \E id \in ContentIds, items \in {{}, {"x"}} :
          update_blog(A, id, [categories |-> List(items)])
    \/ \E r \in Serving : update_blog_update(r)
    \/ \E id \in ContentIds, c \in Categories : create_post(A, id, Post(c))
    \/ \E r \in Serving : create_post_category(r)
    \/ \E r \in Serving : create_post_insert(r)
    \/ \E id \in ContentIds, c \in Categories : update_post(A, id, [category |-> c])
    \/ \E r \in Serving : update_post_verify(r)
    \/ \E r \in Serving : update_post_category(r)
    \/ \E r \in Serving : update_post_update(r)
    \/ \E r \in Serving : Respond(r)

SpecCategory == InitContent /\ [][NextCategory]_vars

(* Likes: A creates a blog and posts, edits and deletes posts, and anyone
   likes them. *)
NextLikes ==
    \/ create_blog(A, [name |-> "B"])
    \/ \E id \in ContentIds : create_post(A, id, Post(PyNone))
    \/ \E r \in Serving : create_post_insert(r)
    \/ \E id \in ContentIds, data \in {[title |-> "U"], [category |-> PyNone]} :
          update_post(A, id, data)
    \/ \E r \in Serving : update_post_verify(r)
    \/ \E r \in Serving : update_post_category(r)
    \/ \E r \in Serving : update_post_update(r)
    \/ \E id \in ContentIds : delete_post(A, id)
    \/ \E r \in Serving : delete_post_verify(r)
    \/ \E r \in Serving : delete_post_delete(r)
    \/ \E r \in Serving : delete_post_comments(r)
    \/ \E id \in ContentIds : like_post(id)
    \/ \E r \in Serving : like_post_find(r)
    \/ \E r \in Serving : Respond(r)

SpecLikes == InitContent /\ [][NextLikes]_vars

(* Path ids: every handler that takes an id in its path, called by A (or by
   anyone, where no login is needed) with every id of PathIds.  What a handler
   answers to a malformed id does not depend on other requests, so here the
   client sends one request at a time. *)
Serial == req = EmptyBag

NextIds ==
    \/ Serial /\ create_blog(A, [name |-> "B"])
    \/ Serial /\ \E id \in PathIds : get_blog(id)
    \/ Serial /\ \E id \in PathIds : update_blog(A, id, [name |-> "B2"])
    \/ \E r \in Serving : update_blog_update(r)
    \/ Serial /\ \E id \in PathIds : delete_blog(A, id)
    \/ \E r \in Serving : delete_blog_delete(r)
    \/ \E r \in Serving : delete_blog_posts(r)
    \/ \E r \in Serving : delete_blog_comments(r)
    \/ Serial /\ \E id \in PathIds, data \in {Post(PyNone), Untitled} : create_post(A, id, data)
    \/ \E r \in Serving : create_post_insert(r)
    \/ Serial /\ \E id \in PathIds, page \in {NaN, 1}, limit \in {10, 101} : get_posts(id, page, limit)
    \/ Serial /\ \E id \in PathIds : get_post(id)
    \/ Serial /\ \E id \in PathIds : update_post(A, id, [title |-> "U"])
    \/ \E r \in Serving : update_post_verify(r)
    \/ \E r \in Serving : update_post_update(r)
    \/ Serial /\ \E id \in PathIds : delete_post(A, id)
    \/ \E r \in Serving : delete_post_verify(r)
    \/ \E r \in Serving : delete_post_delete(r)
    \/ \E r \in Serving : delete_post_comments(r)
    \/ Serial /\ \E id \in PathIds : like_post(id)
    \/ \E r \in Serving : like_post_find(r)
    \/ Serial /\ \E id \in PathIds, n \in {0, 1, MaxCommentLen + 1} : create_comment(id, Comment(n))
    \/ \E r \in Serving : create_comment_insert(r)
    \/ Serial /\ \E id \in PathIds : get_comments(id)
    \/ Serial /\ \E hdr \in {A, NoHeader}, id \in PathIds : delete_comment(hdr, id)
    \/ \E r \in Serving : delete_comment_verify(r)
    \/ \E r \in Serving : delete_comment_delete(r)
    \/ \E r \in Serving : Respond(r)

SpecIds == InitContent /\ [][NextIds]_vars

----------------------------------------------------------------------------
(* Properties of the credential store *)

(* The bearer token t passes require_admin. *)
Passes(t) == IsDoc(require_admin(Bearer(t)))

(* Every token a client could present: never issued (0), issued, or the next draw. *)
Tokens == 0..nextToken

(* The token the latest login of admin a wrote (0 when a never logged in). *)
LastIssued(a) ==
    LET idx == {i \in 1..Len(issued) : issued[i].admin = a}
    IN IF idx = {} THEN 0
       ELSE issued[CHOOSE i \in idx : \A j \in idx : j <= i].token

(* C2: a bearer token passes require_admin only if it is the token written by the
   latest login of the admin it resolves to and no logout of that admin has run
   its update since; every login writes a token no login wrote before; and no
   admin has two tokens that pass. *)
C2_SingleValidSession ==
    /\ \A t \in Tokens :
          Passes(t) =>
             LET a == require_admin(Bearer(t))._id
             IN t # 0 /\ t = LastIssued(a) /\ a \notin loggedOut
    /\ \A i, j \in 1..Len(issued) : i < j => issued[i].token # issued[j].token
    /\ \A a \in DOMAIN admins :
          Cardinality({t \in Tokens : Passes(t) /\ require_admin(Bearer(t))._id = a}) <= 1

(* An admin logged in twice: the second token passes, the first no longer does. *)
C2_Witness ==
    \E i, j \in 1..Len(issued) :
        /\ i < j /\ issued[i].admin = issued[j].admin
        /\ Passes(issued[j].token) /\ ~Passes(issued[i].token)

(* C4: a register call with all fields present either creates the admin (201) or
   fails with Conflict (409), and no two admin records share an email. *)
C4_DuplicateEmailConflict ==
    /\ \A r \in Finished :
          (r.op = "register_admin" /\ r.data.email # "" /\ r.data.password # ""
              /\ r.data.name # "")
          => r.status \in {201, 409}
    /\ \A a, b \in DOMAIN admins : a # b => admins[a].email # admins[b].email

(* The part of C4 the unique index keeps: no two admin records share an email. *)
C4_EmailUnique ==
    \A a, b \in DOMAIN admins : a # b => admins[a].email # admins[b].email

(* The other part of C4 that holds: the insert of a register call leaves every
   admin record that exists as it was. *)
C4_FirstRecordUnchanged ==
    [][\A r \in Serving :
          register_admin_insert(r) =>
             \A a \in DOMAIN admins : a \in DOMAIN admins' /\ admins'[a] = admins[a]]_vars

(* C7: no response body carries password_hash, and none but the successful login
   response carries session_token. *)
C7_NoCredentialsInResponses ==
    \A r \in Finished :
        /\ ~Has(r.body, "password_hash")
        /\ Has(r.body, "session_token") => (r.op = "login_admin" /\ r.status = 200)

(* C10: the update of a logout request leaves every token other than the one the
   request presented as valid as it was. *)
C10_LogoutClearsOnlyPresented ==
    [][\A r \in Serving :
          logout_admin_unset(r) =>
             \A t \in Tokens : (t # r.hdr.token /\ Passes(t)) => Passes(t)']_vars

----------------------------------------------------------------------------
(* Properties of the content repository *)

OwnerOps == {"update_blog", "delete_blog", "create_post",
             "update_post", "delete_post", "delete_comment"}

IdOps == OwnerOps \cup {"get_blog", "get_posts", "get_post", "like_post",
                        "create_comment", "get_comments"}

(* The blog an owner-only request is about: the blog of its path, or the blog_id
   of the post or comment of its path (InvalidId when there is none). *)
TargetBlog(r) ==
    LET oid == ObjectId(r.id)
    IN IF r.op \in {"update_blog", "delete_blog", "create_post"} THEN oid
       ELSE IF r.op \in {"update_post", "delete_post"}
       THEN IF oid \in DOMAIN posts THEN posts[oid].blog_id ELSE InvalidId
       ELSE IF oid \in DOMAIN comments THEN comments[oid].blog_id ELSE InvalidId

(* r is an owner-only request of a logged-in admin on a blog (or a post or
   comment of a blog) that exists and belongs to another admin. *)
NotOwner(r) ==
    /\ r.op \in OwnerOps
    /\ IsDoc(r.admin)
    /\ TargetBlog(r) \in DOMAIN blogs
    /\ blogs[TargetBlog(r)].admin_id # r.admin._id

(* The request r takes a step. *)
Steps(r) == \E r2 \in BagToSet(req') : r2 # r /\ Step(r, r2)

(* C1: an owner-only request made by an admin who does not own the blog ends
   with 403, and no step of it changes the blogs, posts or comments. *)
C1_ForbiddenToOthers ==
    /\ [](\A r \in Finished : NotOwner(r) => r.status = 403)
    /\ [][\A r \in Serving : (NotOwner(r) /\ Steps(r)) => UNCHANGED <<blogs, posts, comments>>]_vars

(* C asked to delete a comment under A's blog and was refused. *)
C1_Witness ==
    \E r \in Finished : NotOwner(r) /\ r.op = "delete_comment" /\ r.status = 403

(* No request is being served that has not finished. *)
Quiet == \A r \in Serving : r.pc = "done"

(* C3: once delete_blog(B) has succeeded and every request has finished, no post
   and no comment has blog_id B. *)
C3_BlogCascade ==
    \A r \in Finished :
        (r.op = "delete_blog" /\ r.status = 200 /\ Quiet) =>
            /\ \A p \in DOMAIN posts : posts[p].blog_id # ObjectId(r.id)
            /\ \A c \in DOMAIN comments : comments[c].blog_id # ObjectId(r.id)

(* C5: whenever a post's category is written with a value other than null, the
   value is in the category set of the post's blog at that moment. *)
C5_CategoryInSet ==
    [][\A p \in DOMAIN posts' :
          ((p \notin DOMAIN posts \/ posts'[p].category # posts[p].category)
              /\ posts'[p].category # PyNone)
          => /\ posts'[p].blog_id \in DOMAIN blogs
             /\ posts'[p].category \in blogs[posts'[p].blog_id].categories]_vars

(* The race alone: C5 for the categories the handlers do look up (neither null
   nor the empty string). *)
C5_LookedUpCategoryInSet ==
    [][\A p \in DOMAIN posts' :
          ((p \notin DOMAIN posts \/ posts'[p].category # posts[p].category)
              /\ Truthy(posts'[p].category))
          => /\ posts'[p].blog_id \in DOMAIN blogs
             /\ posts'[p].category \in blogs[posts'[p].blog_id].categories]_vars

(* C6: a request with a malformed path id (and a valid login where one is
   needed) is answered 400. *)
C6_MalformedIdIs400 ==
    \A r \in Finished :
        (r.op \in IdOps /\ ObjectId(r.id) = InvalidId /\ (r.op \in OwnerOps => IsDoc(r.admin)))
        => r.status = 400

(* C8: the likes of a post are the number of like_post updates that matched it;
   no step lowers them, and a step raises them by one exactly when it is such an
   update. *)
C8_LikesCounted ==
    /\ [](\A p \in DOMAIN posts : posts[p].likes = liked[p])
    /\ [][\A p \in DOMAIN posts \cap DOMAIN posts' :
             /\ posts'[p].likes >= posts[p].likes
             /\ posts'[p].likes - posts[p].likes = liked'[p] - liked[p]]_vars

(* A post was liked twice and edited in between or around. *)
C8_Witness ==
    \E p \in DOMAIN posts : posts[p].likes >= 2 /\ posts[p].title = "U"

(* C9: once delete_post(P) has succeeded and every request has finished, no
   comment has post_id P. *)
C9_PostCascade ==
    \A r \in Finished :
        (r.op = "delete_post" /\ r.status = 200 /\ Quiet) =>
            \A c \in DOMAIN comments : comments[c].post_id # ObjectId(r.id)

====
